---- MODULE Spec2Model ----
(***************************************************************************)
(* Model of the npmrc crate (src/src/lib.rs): read() loads <home>/.npmrc,  *)
(* decodes it into an Npmrc record and promotes the `@`-prefixed keys of   *)
(* `other` into `scopes`; get_registry_for_package looks a package up.     *)
(*                                                                         *)
(* Strings are sequences of one-character strings, so that starts_with and *)
(* split act on characters.  Option<T> is a sequence of length 0 (None) or *)
(* 1 (Some).  The text of the file is the sequence of its key=value lines. *)
(***************************************************************************)
EXTENDS Integers, Sequences, FiniteSets

\* The file has at most MaxLines key=value lines.
MaxLines == 2

-----------------------------------------------------------------------------
(* String literals *)

K_access ==
    <<"a", "c", "c", "e", "s", "s">>
K_loglevel ==
    <<"l", "o", "g", "l", "e", "v", "e", "l">>
K_progress ==
    <<"p", "r", "o", "g", "r", "e", "s", "s">>
K_package_lock ==
    <<"p", "a", "c", "k", "a", "g", "e", "-", "l", "o", "c", "k">>
K_registry ==
    <<"r", "e", "g", "i", "s", "t", "r", "y">>
K_save ==
    <<"s", "a", "v", "e">>
K_scopes ==
    <<"s", "c", "o", "p", "e", "s">>
K_init_author_name ==
    <<"i", "n", "i", "t", "-", "a", "u", "t", "h", "o", "r", "-", "n", "a", "m", "e">>
K_init_author_email ==
    <<"i", "n", "i", "t", "-", "a", "u", "t", "h", "o", "r", "-", "e", "m", "a", "i", "l">>
K_color ==
    <<"c", "o", "l", "o", "r">>
K_a_registry ==
    <<"@", "a", ":", "r", "e", "g", "i", "s", "t", "r", "y">>
K_a_always_auth ==
    <<"@", "a", ":", "a", "l", "w", "a", "y", "s", "-", "a", "u", "t", "h">>
K_ab_registry ==
    <<"@", "a", "b", ":", "r", "e", "g", "i", "s", "t", "r", "y">>
K_at ==
    <<"@">>
K_at_colon_registry ==
    <<"@", ":", "r", "e", "g", "i", "s", "t", "r", "y">>
S_true ==
    <<"t", "r", "u", "e">>
S_false ==
    <<"f", "a", "l", "s", "e">>
S_True ==
    <<"T", "r", "u", "e">>
S_empty ==
    <<>>
S_u ==
    <<"u">>
S_v ==
    <<"v">>
P_a_w ==
    <<"@", "a", "/", "w">>
P_at_a_w ==
    <<"@", "@", "a", "/", "w">>
P_at_ab_w ==
    <<"@", "@", "a", "b", "/", "w">>
P_at_w ==
    <<"@", "@", "/", "w">>
P_w ==
    <<"w">>
RegistrySuffix ==
    <<":", "r", "e", "g", "i", "s", "t", "r", "y">>

-----------------------------------------------------------------------------
(* Inputs *)

\* Keys that name a field of Npmrc holding a string.
StringKeys ==
    {K_access, K_loglevel, K_registry, K_init_author_name, K_init_author_email}

\* Keys that name a field of Npmrc decoded with de_from_str.
BoolKeys ==
    {K_progress, K_package_lock, K_save}

\* Keys that name a field of Npmrc; every other key is collected by `other`.
KnownKeys ==
    StringKeys \cup BoolKeys \cup {K_scopes}

Line(k, v) ==
    [key |-> k, value |-> v]

\* The key=value lines a file is made of.
Lines ==
    {Line(k, v) : k \in StringKeys, v \in {S_empty, S_u}}
    \cup {Line(K_registry, S_v)}
    \cup {Line(k, v) : k \in BoolKeys, v \in {S_true, S_false, S_True, S_empty}}
    \cup {Line(K_scopes, S_u)}
    \cup {Line(K_a_registry, v) : v \in {S_u, S_v}}
    \cup {Line(K_a_always_auth, S_true), Line(K_ab_registry, S_v),
          Line(K_at, S_u), Line(K_at_colon_registry, S_u)}
    \cup {Line(K_color, v) : v \in {S_u, S_v}}

\* The contents <home>/.npmrc can have.
Files ==
    UNION {[1..n -> Lines] : n \in 0..MaxLines}

\* The package names get_registry_for_package is asked about.
Packages ==
    {P_a_w, P_at_a_w, P_at_ab_w, P_at_w, P_w}

-----------------------------------------------------------------------------
(* Pure functions *)

None ==
    <<>>

Some(x) ==
    <<x>>

\* str::starts_with
StartsWith(s, p) ==
    /\ Len(p) <= Len(s)
    /\ \A i \in 1..Len(p) : s[i] = p[i]

\* key.split(':').next().unwrap(): the part of s before its first c, or all
\* of s when c does not occur in it.
SplitNext(s, c) ==
    LET hits == {i \in 1..Len(s) : s[i] = c}
    IN  IF hits = {} THEN s
        ELSE SubSeq(s, 1, (CHOOSE i \in hits : \A j \in hits : i <= j) - 1)

\* bool::from_str: Some(b) for the exact texts "true" and "false", else None
\* (the parse error).
bool_from_str_lenient(s) ==
    IF s = S_true THEN Some(TRUE) ELSE Some(FALSE)

bool_from_str(s) ==
    IF s = S_true THEN Some(TRUE)
    ELSE IF s = S_false THEN Some(FALSE)
    ELSE None

\* de_from_str: the string is decoded, then parsed as a bool; the parse
\* error becomes the decode error.
de_from_str(s) ==
    bool_from_str(s)

\* The indices of the lines of text with key k.
Occurrences(text, k) ==
    {i \in 1..Len(text) : text[i].key = k}

LastOccurrence(text, k) ==
    CHOOSE i \in Occurrences(text, k) : \A j \in Occurrences(text, k) : j <= i

\* #[serde(default)] String field: the value of the key, or String::default().
DeStringField_unset(text, k) ==
    S_empty

DeStringField(text, k) ==
    IF Occurrences(text, k) = {} THEN S_empty
    ELSE text[LastOccurrence(text, k)].value

\* #[serde(default, deserialize_with = "de_from_str")] bool field: the parsed
\* value of the key, or bool::default().  Only used when the parse succeeds.
DeBoolField(text, k) ==
    IF Occurrences(text, k) = {} THEN FALSE
    ELSE de_from_str(text[LastOccurrence(text, k)].value)[1]

\* #[serde(flatten)] other: every key that names no field, the last value
\* given for a key replacing the earlier ones (HashMap insert).
DeOther(text) ==
    [k \in {text[i].key : i \in 1..Len(text)} \ KnownKeys |->
        text[LastOccurrence(text, k)].value]

\* The derived Deserialize of Npmrc fails when a field's key occurs twice
\* (duplicate field), when a bool field's text does not parse, and when the
\* `scopes` key is given (a string is no sequence of Scope).
DecodeFails(text) ==
    \/ \E k \in KnownKeys : Cardinality(Occurrences(text, k)) > 1
    \/ \E i \in 1..Len(text) :
          /\ text[i].key \in BoolKeys
          /\ de_from_str(text[i].value) = None
    \/ Occurrences(text, K_scopes) # {}

\* serde_ini::from_str::<Npmrc>: None on a decode error.
from_str(text) ==
    IF DecodeFails(text) THEN None
    ELSE Some([access            |-> DeStringField(text, K_access),
               loglevel          |-> DeStringField(text, K_loglevel),
               progress          |-> DeBoolField(text, K_progress),
               package_lock      |-> DeBoolField(text, K_package_lock),
               registry          |-> DeStringField(text, K_registry),
               save              |-> DeBoolField(text, K_save),
               scopes            |-> <<>>,
               init_author_name  |-> DeStringField(text, K_init_author_name),
               init_author_email |-> DeStringField(text, K_init_author_email),
               other             |-> DeOther(text)])

\* The name read() gives the Scope made from key.
scope_name_stripped(key) ==
    LET name == SplitNext(key, ":") IN SubSeq(name, 2, Len(name))

scope_name(key) ==
    SplitNext(key, ":")

\* The loop of get_registry_for_package from entry i on: the registry_url of
\* the first scope whose "@{name}/" the package starts with.
RECURSIVE scan_scopes(_, _, _)
scan_scopes(scopes, package, i) ==
    IF i > Len(scopes) THEN None
    ELSE IF StartsWith(package, <<"@">> \o scopes[i].name \o <<"/">>)
         THEN Some(scopes[i].registry_url)
         ELSE scan_scopes(scopes, package, i + 1)

Fallback(self) ==
    IF self.registry = S_empty THEN None ELSE Some(self.registry)

\* Variants of get_registry_for_package with a slip in them.
RECURSIVE scan_scopes_last(_, _, _)
scan_scopes_last(scopes, package, i) ==
    IF i < 1 THEN None
    ELSE IF StartsWith(package, <<"@">> \o scopes[i].name \o <<"/">>)
         THEN Some(scopes[i].registry_url)
         ELSE scan_scopes_last(scopes, package, i - 1)

get_registry_for_package_last(self, package) ==
    LET hit == scan_scopes_last(self.scopes, package, Len(self.scopes))
    IN  IF hit # None THEN hit ELSE Fallback(self)

get_registry_for_package_present(self, package) ==
    LET hit == scan_scopes(self.scopes, package, 1)
    IN  IF hit # None THEN hit ELSE Some(self.registry)

get_registry_for_package(self, package) ==
    LET hit == scan_scopes(self.scopes, package, 1)
    IN  IF hit # None THEN hit ELSE Fallback(self)

-----------------------------------------------------------------------------
(* State *)

VARIABLES
    home_dir,     \* dirs::home_dir(): None or Some(path)
    fs,           \* what <home>/.npmrc holds: None (no readable file) or Some(text)
    pc,           \* where read() is: "home", "read", "decode", "promote", "done", "failed"
    npmrc_path,   \* the local npmrc_path of read(), None until it is bound
    npmrc,        \* the local npmrc of read(), None until it is bound
    contents,     \* the local contents of read(), None until it is bound
    iter,         \* the keys of contents.other the for loop has yet to visit
    error,        \* the Err read() returned, "" when none
    ret,          \* the Npmrc read() returned in Ok, None when none
    lookup        \* the last get_registry_for_package call: None or Some([package, result])

vars ==
    <<home_dir, fs, pc, npmrc_path, npmrc, contents, iter, error, ret, lookup>>

Init ==
    /\ home_dir \in {None, Some(<<"home">>)}
    /\ fs \in IF home_dir = None THEN {None} ELSE {None} \cup {Some(f) : f \in Files}
    /\ pc = "home"
    /\ npmrc_path = None
    /\ npmrc = None
    /\ contents = None
    /\ iter = {}
    /\ error = ""
    /\ ret = None
    /\ lookup = None

-----------------------------------------------------------------------------
(* read() *)

\* match dirs::home_dir() { None => return Err(..) }
HomeDirNone ==
    /\ pc = "home"
    /\ home_dir = None
    /\ error' = "HomeDirNotFound"
    /\ pc' = "failed"
    /\ UNCHANGED <<home_dir, fs, npmrc_path, npmrc, contents, iter, ret, lookup>>

\* match dirs::home_dir() { Some(home_path) => home_path.join(".npmrc") }
HomeDirSome ==
    /\ pc = "home"
    /\ home_dir # None
    /\ npmrc_path' = Some(home_dir[1] \o <<".npmrc">>)
    /\ pc' = "read"
    /\ UNCHANGED <<home_dir, fs, npmrc, contents, iter, error, ret, lookup>>

\* fs::read_to_string(npmrc_path)? on a missing or unreadable file
ReadToStringErr_recover ==
    /\ pc = "read"
    /\ fs = None
    /\ npmrc' = Some(<<>>)
    /\ pc' = "decode"
    /\ UNCHANGED <<home_dir, fs, npmrc_path, contents, iter, error, ret, lookup>>

ReadToStringErr ==
    /\ pc = "read"
    /\ fs = None
    /\ error' = "IoError"
    /\ pc' = "failed"
    /\ UNCHANGED <<home_dir, fs, npmrc_path, npmrc, contents, iter, ret, lookup>>

\* fs::read_to_string(npmrc_path)? on a readable file
ReadToStringOk ==
    /\ pc = "read"
    /\ fs # None
    /\ npmrc' = fs
    /\ pc' = "decode"
    /\ UNCHANGED <<home_dir, fs, npmrc_path, contents, iter, error, ret, lookup>>

\* serde_ini::from_str(&npmrc)? on a text that does not decode
FromStrErr ==
    /\ pc = "decode"
    /\ from_str(npmrc[1]) = None
    /\ error' = "DecodeError"
    /\ pc' = "failed"
    /\ UNCHANGED <<home_dir, fs, npmrc_path, npmrc, contents, iter, ret, lookup>>

\* let mut contents: Npmrc = serde_ini::from_str(&npmrc)?; the for loop starts
FromStrOk ==
    /\ pc = "decode"
    /\ from_str(npmrc[1]) # None
    /\ contents' = from_str(npmrc[1])
    /\ iter' = DOMAIN from_str(npmrc[1])[1].other
    /\ pc' = "promote"
    /\ UNCHANGED <<home_dir, fs, npmrc_path, npmrc, error, ret, lookup>>

\* One iteration of `for (key, value) in &contents.other`; a HashMap yields
\* its entries in an unspecified order, so any key not yet visited is next.
Promoted(c, key) ==
    IF StartsWith(key, <<"@">>)
    THEN [c EXCEPT !.scopes =
            Append(@, [name |-> scope_name(key), registry_url |-> c.other[key]])]
    ELSE c

\* Variants of the loop body with a slip in them.
PromoteKey_moving(key) ==
    /\ pc = "promote"
    /\ key \in iter
    /\ contents' = Some([Promoted(contents[1], key) EXCEPT !.other =
                            [k \in DOMAIN @ \ {key} |-> @[k]]])
    /\ iter' = iter \ {key}
    /\ UNCHANGED <<home_dir, fs, pc, npmrc_path, npmrc, error, ret, lookup>>

PromoteKey_dedup(key) ==
    /\ pc = "promote"
    /\ key \in iter
    /\ contents' =
         IF \E i \in 1..Len(contents[1].scopes) :
                contents[1].scopes[i].name = scope_name(key)
         THEN contents
         ELSE Some(Promoted(contents[1], key))
    /\ iter' = iter \ {key}
    /\ UNCHANGED <<home_dir, fs, pc, npmrc_path, npmrc, error, ret, lookup>>

PromoteKey(key) ==
    /\ pc = "promote"
    /\ key \in iter
    /\ contents' = Some(Promoted(contents[1], key))
    /\ iter' = iter \ {key}
    /\ UNCHANGED <<home_dir, fs, pc, npmrc_path, npmrc, error, ret, lookup>>

\* Ok(contents)
Return ==
    /\ pc = "promote"
    /\ iter = {}
    /\ ret' = contents
    /\ pc' = "done"
    /\ UNCHANGED <<home_dir, fs, npmrc_path, npmrc, contents, iter, error, lookup>>

-----------------------------------------------------------------------------
(* Npmrc::get_registry_for_package on the record read() returned *)

Lookup(package) ==
    /\ pc = "done"
    /\ lookup' = Some([package |-> package,
                       result  |-> get_registry_for_package(ret[1], package)])
    /\ UNCHANGED <<home_dir, fs, pc, npmrc_path, npmrc, contents, iter, error, ret>>

Next ==
    \/ HomeDirNone
    \/ HomeDirSome
    \/ ReadToStringErr
    \/ ReadToStringOk
    \/ FromStrErr
    \/ FromStrOk
    \/ \E key \in iter : PromoteKey(key)
    \/ Return
    \/ \E package \in Packages : Lookup(package)

Spec ==
    Init /\ [][Next]_vars

-----------------------------------------------------------------------------
(* Properties *)

\* The text of the file read() was given (defined when fs # None).
FileText ==
    fs[1]

FileKeys ==
    {FileText[i].key : i \in 1..Len(FileText)}

\* package starts with "@" + name + "/", spelled out character by character.
ScopeMatches(name, package) ==
    /\ Len(package) >= Len(name) + 2
    /\ package[1] = "@"
    /\ \A j \in 1..Len(name) : package[j + 1] = name[j]
    /\ package[Len(name) + 2] = "/"

\* The entries of the returned record's scopes that match the looked-up package.
MatchingEntries ==
    {i \in 1..Len(ret[1].scopes) :
        ScopeMatches(ret[1].scopes[i].name, lookup[1].package)}

\* The keys of `other` that begin with `@`.
AtKeys(c) ==
    {k \in DOMAIN c.other : Len(k) >= 1 /\ k[1] = "@"}

\* key is `@S:registry` for the non-empty, colon-free scope name S.
IsRegistryKeyOf(key, S) ==
    /\ S # <<>>
    /\ \A j \in 1..Len(S) : S[j] # ":"
    /\ key = <<"@">> \o S \o RegistrySuffix

\* The scope names S for which package is "@S/<anything>".
ScopeNamesOf(package) ==
    {SubSeq(package, 2, n) : n \in {m \in 2..(Len(package) - 1) :
        package[1] = "@" /\ package[m + 1] = "/"}}

\* C1: once read() has returned a record for a file with a line `@S:registry=U`
\* (S non-empty), a lookup of a package "@S/<anything>" returns U, whatever
\* the top-level registry is.
C1_ScopedLookupReturnsScopeUrl ==
    (pc = "done" /\ lookup # None) =>
        \A i \in 1..Len(FileText) : \A S \in ScopeNamesOf(lookup[1].package) :
            (/\ IsRegistryKeyOf(FileText[i].key, S)
             /\ i = LastOccurrence(FileText, FileText[i].key))
            => lookup[1].result = Some(FileText[i].value)

\* C2: every `@`-prefixed key of `other` the loop has visited has a Scope in
\* scopes whose name is the part of the key before its first `:` without the
\* leading `@`, and whose registry_url is the key's value.
C2_ScopeNameStripped ==
    (pc \in {"promote", "done"}) =>
        \A k \in AtKeys(contents[1]) \ iter :
            \E i \in 1..Len(contents[1].scopes) :
                contents[1].scopes[i] =
                    [name         |-> SubSeq(SplitNext(k, ":"), 2, Len(SplitNext(k, ":"))),
                     registry_url |-> contents[1].other[k]]

\* C3: a lookup that no entry of scopes matches returns the top-level registry
\* when that is non-empty and None when it is empty, never Some("").
C3_FallbackToRegistry ==
    (pc = "done" /\ lookup # None /\ MatchingEntries = {}) =>
        /\ ret[1].registry # S_empty => lookup[1].result = Some(ret[1].registry)
        /\ ret[1].registry = S_empty => lookup[1].result = None
        /\ lookup[1].result # Some(S_empty)

C3_Witness ==
    /\ pc = "done"
    /\ lookup # None
    /\ lookup[1].package = P_w
    /\ ret[1].scopes # <<>>
    /\ ret[1].registry = S_empty
    /\ lookup[1].result = None

\* C4: from the decode on, through the promotion loop and in the returned
\* record, `other` holds exactly the file's keys that name no field, each
\* with the (last) value the file gives it, the `@`-prefixed ones included.
C4_OtherUnchanged ==
    (pc \in {"promote", "done"}) =>
        /\ DOMAIN contents[1].other = FileKeys \ KnownKeys
        /\ \A k \in FileKeys \ KnownKeys :
               contents[1].other[k] = FileText[LastOccurrence(FileText, k)].value
        /\ pc = "done" => ret[1].other = contents[1].other

C4_Witness ==
    /\ pc = "done"
    /\ K_a_registry \in DOMAIN ret[1].other
    /\ K_color \in DOMAIN ret[1].other
    /\ Len(ret[1].scopes) = 1

\* The field of record c that key k names.
FieldOf(c, k) ==
    CASE k = K_access            -> c.access
      [] k = K_loglevel          -> c.loglevel
      [] k = K_registry          -> c.registry
      [] k = K_init_author_name  -> c.init_author_name
      [] k = K_init_author_email -> c.init_author_email

BoolFieldOf(c, k) ==
    CASE k = K_progress     -> c.progress
      [] k = K_package_lock -> c.package_lock
      [] k = K_save         -> c.save

\* C5: once the decode step has run, a bool field given as `true` is TRUE and
\* one given as `false` is FALSE in the record, and a file giving a bool field
\* any other text has no record: read() returned the decode error.
C5_BoolDecoding ==
    (npmrc # None /\ pc # "decode") =>
        \A i \in 1..Len(FileText) :
            FileText[i].key \in BoolKeys =>
                /\ (contents # None /\ FileText[i].value = S_true)
                       => BoolFieldOf(contents[1], FileText[i].key) = TRUE
                /\ (contents # None /\ FileText[i].value = S_false)
                       => BoolFieldOf(contents[1], FileText[i].key) = FALSE
                /\ FileText[i].value \notin {S_true, S_false}
                       => (contents = None /\ ret = None /\ error = "DecodeError")

C5_Witness ==
    /\ pc = "done"
    /\ \E i \in 1..Len(FileText) :
          FileText[i] = Line(K_save, S_true) /\ ret[1].save = TRUE
    /\ \E i \in 1..Len(FileText) :
          FileText[i] = Line(K_progress, S_false) /\ ret[1].progress = FALSE

C5_WitnessError ==
    /\ pc = "failed"
    /\ error = "DecodeError"
    /\ \E i \in 1..Len(FileText) : FileText[i] = Line(K_save, S_True)

\* C6: in a decoded record every known field equals the value the file gives
\* its key, or its default (empty string, false) when the file does not give
\* the key; an empty file yields empty scopes and other and every lookup
\* returns None.
C6_FieldsAndDefaults ==
    (contents # None) =>
        /\ \A k \in StringKeys :
              FieldOf(contents[1], k) =
                  IF k \in FileKeys
                  THEN FileText[LastOccurrence(FileText, k)].value
                  ELSE S_empty
        /\ \A k \in BoolKeys :
              BoolFieldOf(contents[1], k) =
                  IF k \in FileKeys
                  THEN (FileText[LastOccurrence(FileText, k)].value = S_true)
                  ELSE FALSE
        /\ FileText = <<>> =>
              /\ contents[1].scopes = <<>>
              /\ DOMAIN contents[1].other = {}
              /\ lookup # None => lookup[1].result = None

C6_Witness ==
    /\ pc = "done"
    /\ K_registry \in FileKeys
    /\ K_init_author_name \in FileKeys
    /\ ret[1].registry = S_v
    /\ ret[1].init_author_name = S_u
    /\ ret[1].access = S_empty

\* C7: read() ends with the error of the first step that fails and runs no
\* later step: without a home directory nothing is read, without a readable
\* file nothing is decoded, without a decodable text no record exists; a
\* record is returned only when all three steps succeeded, and after an error
\* nothing changes any more (no retry).
C7_StepState ==
    /\ error \in {"", "HomeDirNotFound", "IoError", "DecodeError"}
    /\ (pc = "failed") <=> (error # "")
    /\ error # "" => (ret = None /\ contents = None)
    /\ error = "HomeDirNotFound" <=> (pc # "home" /\ home_dir = None)
    /\ error = "IoError" <=>
          (pc \notin {"home", "read"} /\ home_dir # None /\ fs = None)
    /\ error = "DecodeError" <=>
          (pc \notin {"home", "read", "decode"} /\ npmrc # None
              /\ from_str(npmrc[1]) = None)
    /\ home_dir = None => (npmrc_path = None /\ npmrc = None)
    /\ fs = None => (npmrc = None /\ contents = None)
    /\ npmrc # None => (npmrc_path # None /\ npmrc = fs)
    /\ contents # None => npmrc # None
    /\ ret # None =>
          (home_dir # None /\ fs # None /\ contents # None /\ iter = {} /\ error = "")

C7_FirstFailureEndsRead ==
    [](C7_StepState) /\ [][error # "" => UNCHANGED vars]_vars

C7_Witness ==
    /\ pc = "failed"
    /\ error = "DecodeError"
    /\ home_dir # None
    /\ npmrc # None

C7_WitnessIo ==
    pc = "failed" /\ error = "IoError" /\ npmrc_path # None

\* C8: every Scope the promotion loop appends has a non-empty name, also for
\* the keys `@` and `@:registry`.
C8_ScopeNameNonEmpty ==
    (contents # None) =>
        \A i \in 1..Len(contents[1].scopes) : contents[1].scopes[i].name # <<>>

C8_Witness ==
    /\ pc = "done"
    /\ K_at \in DOMAIN ret[1].other
    /\ K_at_colon_registry \in DOMAIN ret[1].other
    /\ Len(ret[1].scopes) = 2

\* C9: a lookup returns the registry_url of the matching entry of scopes with
\* the smallest index; an entry whose name is only a proper prefix of the
\* package's scope does not match.
C9_FirstMatchWins ==
    (pc = "done" /\ lookup # None /\ MatchingEntries # {}) =>
        LET first == CHOOSE i \in MatchingEntries : \A j \in MatchingEntries : i <= j
        IN  lookup[1].result = Some(ret[1].scopes[first].registry_url)

C9_Witness ==
    /\ pc = "done"
    /\ lookup # None
    /\ Cardinality(MatchingEntries) = 2
    /\ ret[1].scopes[1].registry_url # ret[1].scopes[2].registry_url

\* C10: the returned scopes has exactly one entry per `@`-prefixed key of
\* `other`, carrying that key's value as registry_url, and no other entry.
C10_OneScopePerAtKey ==
    (pc = "done") =>
        /\ Len(ret[1].scopes) = Cardinality(AtKeys(ret[1]))
        /\ \E f \in [1..Len(ret[1].scopes) -> AtKeys(ret[1])] :
              /\ \A i, j \in 1..Len(ret[1].scopes) : f[i] = f[j] => i = j
              /\ \A i \in 1..Len(ret[1].scopes) :
                    ret[1].scopes[i].registry_url = ret[1].other[f[i]]

C10_Witness ==
    /\ pc = "done"
    /\ K_a_always_auth \in DOMAIN ret[1].other
    /\ K_at \in DOMAIN ret[1].other
    /\ Len(ret[1].scopes) = 2
====
